---- MODULE Spec2Model ----
(***************************************************************************)
(* Weekly planning of "chantiers" (jobs) over "preparateurs" (resources):  *)
(* the ISO week calendar of time-utils.js, the automatic reallocation of   *)
(* planning-logic.js and the handlers that edit the stores and call it.    *)
(*                                                                         *)
(* Dates are day numbers (days since 1970-01-01).  The host time zone is   *)
(* taken east of or at UTC, so that the local calendar date of a UTC       *)
(* midnight is the same date and getFullYear()/getWeek() of a week's start *)
(* read the Monday itself.                                                 *)
(***************************************************************************)
EXTENDS Integers, Sequences, FiniteSets, TLC

(***************************************************************************)
(* time-utils.js: dates and the generated calendar                         *)
(***************************************************************************)

FirstYear == 2024
LastYear == 2028

\* Day number of 1 January of year y (Date.UTC(y, 0, 1) / 86400000).
Jan1(y) ==
  365 * (y - 1970) + ((y - 1969) \div 4) - ((y - 1901) \div 100) + ((y - 1601) \div 400)

IsLeap(y) == (y % 4 = 0 /\ y % 100 # 0) \/ y % 400 = 0

DaysBeforeMonth(y, m) ==
  LET cum == <<0, 31, 59, 90, 120, 151, 181, 212, 243, 273, 304, 334>>
  IN cum[m] + (IF m > 2 /\ IsLeap(y) THEN 1 ELSE 0)

\* new Date(year, month - 1, day) as a day number.
DayOf(y, m, d) == Jan1(y) + DaysBeforeMonth(y, m) + (d - 1)

\* Date.getUTCDay(): 0 = Sunday ... 6 = Saturday (1970-01-01 was a Thursday).
getUTCDay(day) == (day + 4) % 7

\* Date.getFullYear() of a day number.
getFullYear(day) ==
  LET y0 == 1970 + (day \div 365)
  IN IF Jan1(y0) > day THEN y0 - 1 ELSE y0

\* Date.prototype.getWeek: ISO week number, through the Thursday of the week.
getWeek(day) ==
  LET dow == IF getUTCDay(day) = 0 THEN 7 ELSE getUTCDay(day)
      th  == day + 4 - dow
      y   == getFullYear(th)
  IN ((th - Jan1(y)) \div 7) + 1

\* Every year taken to have 52 weeks.
getISOWeeksInYear52(y) == 52

\* getISOWeeksInYear: the week number of December 31, 1 read as 52.
getISOWeeksInYear(y) ==
  LET w == getWeek(Jan1(y + 1) - 1)
  IN IF w = 1 THEN 52 ELSE w

\* Monday of ISO week w of year y.
getDateOfISOWeek(w, y) ==
  LET d   == Jan1(y) + (w - 1) * 7
      dow == IF getUTCDay(d) = 0 THEN 7 ELSE getUTCDay(d)
  IN d + (1 - dow + (IF dow <= 4 THEN 0 ELSE 7))

RECURSIVE BuildWeeks(_)
BuildWeeks(y) ==
  IF y > LastYear THEN <<>>
  ELSE [w \in 1..getISOWeeksInYear(y) |->
          LET s == getDateOfISOWeek(w, y)
          IN [id |-> <<w, y>>, start |-> s, end |-> s + 6]]
       \o BuildWeeks(y + 1)

\* The global `weeks` (indices 1..Len(weeks) here, 0..length-1 in the code).
weeks == BuildWeeks(FirstYear)

NWeeks == Len(weeks)

\* The weekKey `${start.getFullYear()}-W${pad2(start.getWeek())}-1` of a week,
\* as the pair (year, week number) the string is built from and parsed back to.
KeyOf(w) == <<getFullYear(w.start), getWeek(w.start)>>

weekKeys == [i \in 1..NWeeks |-> KeyOf(weeks[i])]

AllKeys == {weekKeys[i] : i \in 1..NWeeks}

\* weekMap[key].idx: forEach overwrites, so the last week with that key wins.
weekMap == [k \in AllKeys |-> CHOOSE i \in 1..NWeeks :
              /\ weekKeys[i] = k
              /\ \A j \in 1..NWeeks : weekKeys[j] = k => j <= i]

(***************************************************************************)
(* The stores (main.js): data, preparateursMeta, chantiers                 *)
(***************************************************************************)

Names == {"A", "B"}

\* Object.keys(data) is walked in insertion order; the model walks this order.
NameOrder == <<"A", "B">>

NoPrep == "null"

Statuses ==
  {"Nouveau", "Prepa. en cours", "Prepare", "Travaux realises", "Cloture", "Annule"}

\* ['Nouveau', 'Prépa. en cours'].includes(ch.status)
IsActive(c) == c.status \in {"Nouveau", "Prepa. en cours"}

\* An optional field of a job record: <<>> when the record does not carry it,
\* <<v>> when it holds v.
Absent == <<>>

\* planification[key] || 0
PlanAt(p, k) == IF k \in DOMAIN p THEN p[k] ELSE 0

PlanPut(p, k, v) == [x \in (DOMAIN p) \cup {k} |-> IF x = k THEN v ELSE p[x]]

PlanRestrict(p, S) == [x \in (DOMAIN p) \cap S |-> p[x]]

RECURSIVE SumPlan(_)
\* Object.values(planification).reduce((s, v) => s + v, 0)
SumPlan(p) ==
  IF DOMAIN p = {} THEN 0
  ELSE LET k == CHOOSE x \in DOMAIN p : TRUE
       IN p[k] + SumPlan([x \in (DOMAIN p) \ {k} |-> p[x]])

\* parseDateFR("dd/mm/yyyy"): endDate is kept as the triple <<dd, mm, yyyy>>.
parseDateFR(e) == DayOf(e[3], e[2], e[1])

(***************************************************************************)
(* planning-logic.js: repartitionAutomatique                               *)
(***************************************************************************)

\* nowFixed without line 13: a Sunday stays a Sunday.
nowFixedSundayKept(now) == now

\* An instant is [day |-> day number, min |-> minute of the day].
\* nowFixed: the local wall clock read as UTC, a Sunday moved back one day.
nowFixed(now) ==
  IF getUTCDay(now.day) = 0 THEN [day |-> now.day - 1, min |-> now.min] ELSE now

Instant(t) == t.day * 1440 + t.min

\* weeks.findIndex(w => w.start <= nowFixed && w.end >= nowFixed); 0 is the
\* code's -1 (not found), weeks being numbered from 1 here.
currentWeekIdx(now) ==
  LET t == Instant(nowFixed(now))
      S == {i \in 1..NWeeks : weeks[i].start * 1440 <= t /\ weeks[i].end * 1440 >= t}
  IN IF S = {} THEN 0 ELSE CHOOSE i \in S : \A j \in S : i <= j

\* weekMap[key] && weekMap[key].idx >= currentWeekIdx
KeyFromCurrent(k, cur) == k \in DOMAIN weekMap /\ weekMap[k] >= cur

\* weekMap[key] && weekMap[key].idx < currentWeekIdx
KeyBeforeCurrent(k, cur) == k \in DOMAIN weekMap /\ weekMap[k] < cur

\* Deprogram with the deletion loop left after its first hit: a job out of
\* the active statuses loses only the earliest of its entries from the
\* current week on.
DeprogramFirstOnly(ch, cur) ==
  [id \in DOMAIN ch |->
     IF ~IsActive(ch[id])
     THEN LET F == {k \in DOMAIN ch[id].planification : KeyFromCurrent(k, cur)}
          IN [ch[id] EXCEPT !.planification =
                PlanRestrict(@, {k \in DOMAIN @ :
                                   k \notin F \/ \E x \in F : weekMap[x] < weekMap[k]})]
     ELSE ch[id]]

\* Lines 31-40: jobs out of the active statuses lose their entries from the current week on.
Deprogram(ch, cur) ==
  [id \in DOMAIN ch |->
     IF ~IsActive(ch[id])
     THEN [ch[id] EXCEPT !.planification =
             PlanRestrict(@, {k \in DOMAIN @ : ~KeyFromCurrent(k, cur)})]
     ELSE ch[id]]

\* stored ? (typeof stored === 'object' ? stored.minutes : stored) : 0
StoredMinutes(stored) ==
  IF stored.shape = "object" THEN stored.minutes
  ELSE IF stored.minutes # 0 THEN stored.minutes ELSE 0

\* dispoParSemaine[key] || 0 for preparer `name`
dispoParSemaine(dat, name, k) ==
  IF name \in DOMAIN dat /\ k \in DOMAIN dat[name] THEN StoredMinutes(dat[name][k]) ELSE 0

RECURSIVE SortByEndDateDesc(_, _)
\* The sort with its comparison turned round (b - a): latest deadline first.
SortByEndDateDesc(ch, S) ==
  IF S = {} THEN <<>>
  ELSE LET m == CHOOSE x \in S : \A y \in S :
                  \/ parseDateFR(ch[x].endDate) > parseDateFR(ch[y].endDate)
                  \/ (parseDateFR(ch[x].endDate) = parseDateFR(ch[y].endDate) /\ x <= y)
       IN <<m>> \o SortByEndDateDesc(ch, S \ {m})

RECURSIVE SortByEndDate(_, _)
\* Stable sort by parseDateFR(endDate): ties keep the order of Object.values.
SortByEndDate(ch, S) ==
  IF S = {} THEN <<>>
  ELSE LET m == CHOOSE x \in S : \A y \in S :
                  \/ parseDateFR(ch[x].endDate) < parseDateFR(ch[y].endDate)
                  \/ (parseDateFR(ch[x].endDate) = parseDateFR(ch[y].endDate) /\ x <= y)
       IN <<m>> \o SortByEndDate(ch, S \ {m})

\* chantierList without the test on ch.preparateur: every active job.
chantierListAnyOwner(ch, name) ==
  SortByEndDate(ch, {id \in DOMAIN ch : IsActive(ch[id])})

chantierList(ch, name) ==
  SortByEndDate(ch, {id \in DOMAIN ch : ch[id].preparateur = name /\ IsActive(ch[id])})

RECURSIVE SumOver(_, _, _)
\* chantierList.reduce((s, c) => s + (c.planification[key] || 0), 0)
SumOver(ch, list, k) ==
  IF list = <<>> THEN 0
  ELSE PlanAt(ch[Head(list)].planification, k) + SumOver(ch, Tail(list), k)

Max(a, b) == IF a >= b THEN a ELSE b
Min(a, b) == IF a <= b THEN a ELSE b

\* First forEach of a preparer: keep the past entries, set ChargeRestante.
ResetToPast(ch, list, cur) ==
  [id \in DOMAIN ch |->
     IF \E n \in 1..Len(list) : list[n] = id
     THEN LET pastPlanif == PlanRestrict(ch[id].planification,
                              {k \in DOMAIN ch[id].planification : KeyBeforeCurrent(k, cur)})
          IN [ch[id] EXCEPT !.planification = pastPlanif,
                            !.ChargeRestante = <<Max(0, ch[id].prepTime - SumPlan(pastPlanif))>>]
     ELSE ch[id]]

\* toPlan without the cap by remainingToPlan: a week gives all it has free.
toPlanUncapped(ch, dat, name, list, k, remainingToPlan) ==
  Max(0, dispoParSemaine(dat, name, k) - SumOver(ch, list, k))

\* toPlan without `already`: a week gives its whole availability to every job.
toPlanIgnoringOthers(ch, dat, name, list, k, remainingToPlan) ==
  Min(remainingToPlan, Max(0, dispoParSemaine(dat, name, k)))

\* toPlan = Math.min(remainingToPlan, Math.max(0, dispo - already))
toPlan(ch, dat, name, list, k, remainingToPlan) ==
  Min(remainingToPlan, Max(0, dispoParSemaine(dat, name, k) - SumOver(ch, list, k)))

\* The weeks of the calendar that carry key k.
WeeksOfKey == [k \in AllKeys |-> {i \in 1..NWeeks : weekKeys[i] = k}]

\* The weeks where preparer `name` has a stored availability: in any other
\* week dispoParSemaine is 0, so free = 0 and toPlan = 0.
WeeksWithDispo(dat, name) ==
  UNION {WeeksOfKey[k] : k \in (DOMAIN dat[name]) \cap AllKeys}

RECURSIVE PlanWeeksUntilDeadline(_, _, _, _, _, _, _)
\* The walk with a feasibility check: it leaves out the weeks that start
\* after the deadline of the job.
PlanWeeksUntilDeadline(ch, dat, name, list, id, i, remainingToPlan) ==
  IF remainingToPlan <= 0 THEN ch
  ELSE LET S == {j \in WeeksWithDispo(dat, name) :
                   /\ j >= i
                   /\ weeks[j].start <= parseDateFR(ch[id].endDate)
                   /\ toPlan(ch, dat, name, list, weekKeys[j], remainingToPlan) > 0}
       IN IF S = {} THEN ch
          ELSE LET j  == CHOOSE x \in S : \A y \in S : x <= y
                   k  == weekKeys[j]
                   tp == toPlan(ch, dat, name, list, k, remainingToPlan)
               IN PlanWeeksUntilDeadline([ch EXCEPT ![id].planification =
                                            PlanPut(@, k, PlanAt(@, k) + tp)],
                                         dat, name, list, id, j + 1, remainingToPlan - tp)

RECURSIVE PlanWeeks(_, _, _, _, _, _, _)
\* planWeeks.forEach for one job, from week i on.  An iteration changes
\* something only when toPlan > 0, and every iteration after
\* remainingToPlan <= 0 returns at once: the walk goes from one week with
\* toPlan > 0 to the next.
PlanWeeks(ch, dat, name, list, id, i, remainingToPlan) ==
  IF remainingToPlan <= 0 THEN ch
  ELSE LET S == {j \in WeeksWithDispo(dat, name) :
                   /\ j >= i
                   /\ toPlan(ch, dat, name, list, weekKeys[j], remainingToPlan) > 0}
       IN IF S = {} THEN ch
          ELSE LET j  == CHOOSE x \in S : \A y \in S : x <= y
                   k  == weekKeys[j]
                   tp == toPlan(ch, dat, name, list, k, remainingToPlan)
               IN PlanWeeks([ch EXCEPT ![id].planification =
                               PlanPut(@, k, PlanAt(@, k) + tp)],
                            dat, name, list, id, j + 1, remainingToPlan - tp)

RECURSIVE PlanJobs(_, _, _, _, _, _)
\* Second forEach of a preparer: the jobs in deadline order, from job n on.
PlanJobs(ch, dat, name, list, n, cur) ==
  IF n > Len(list) THEN ch
  ELSE LET id == list[n]
           remainingToPlan == ch[id].prepTime - SumPlan(ch[id].planification)
       IN PlanJobs(PlanWeeks(ch, dat, name, list, id, cur, remainingToPlan),
                   dat, name, list, n + 1, cur)

\* Body of Object.keys(data).forEach for one preparer.
PlanPreparateur(ch, dat, name, cur) ==
  LET list == chantierList(ch, name)
  IN IF list = <<>> THEN ch
     ELSE PlanJobs(ResetToPast(ch, list, cur), dat, name, list, 1, cur)

RECURSIVE PlanAll(_, _, _, _)
PlanAll(ch, dat, n, cur) ==
  IF n > Len(NameOrder) THEN ch
  ELSE IF NameOrder[n] \in DOMAIN dat
       THEN PlanAll(PlanPreparateur(ch, dat, NameOrder[n], cur), dat, n + 1, cur)
       ELSE PlanAll(ch, dat, n + 1, cur)

\* The instants at which the handlers read the clock (new Date()), in
\* chronological order: a Wednesday of the first calendar week, a Sunday of
\* the second, a Friday and a later Sunday of November 2026, and the first
\* day after the calendar.
Anchors ==
  << [day |-> DayOf(2024, 1, 3),   min |-> 600],
     [day |-> DayOf(2024, 1, 14),  min |-> 600],
     [day |-> DayOf(2026, 11, 6),  min |-> 600],
     [day |-> DayOf(2026, 11, 15), min |-> 1380],
     [day |-> DayOf(2029, 1, 1),   min |-> 0] >>

\* nowId = `S${now.getWeek()}/${now.getFullYear()}`, read from the wall clock (time-utils.js).
NowIdOf(t) == <<getWeek(t.day), getFullYear(t.day)>>

\* currentWeekIdx of every anchor.
AnchorWeek == [a \in 1..Len(Anchors) |-> currentWeekIdx(Anchors[a])]

\* The function without its early return on currentWeekIdx < 0.
RepartitionNoGuard(ch, dat, cur) == PlanAll(Deprogram(ch, cur), dat, 1, cur)

\* repartitionAutomatique once currentWeekIdx is known: the job store it leaves.
Repartition(ch, dat, cur) ==
  IF cur = 0 THEN ch
  ELSE PlanAll(Deprogram(ch, cur), dat, 1, cur)

\* The whole function, the clock reading anchor a.
repartitionAutomatique(ch, dat, a) == Repartition(ch, dat, AnchorWeek[a])

(***************************************************************************)
(* State and handlers                                                      *)
(***************************************************************************)

VARIABLES
  now,               \* index in Anchors of the current reading of the clock
  clock,             \* the instant at which the page was loaded
  nowId,             \* <<week, year>> of the clock when the page was loaded
  data,              \* preparer name -> (weekKey -> stored availability)
  preparateursMeta,  \* preparer name -> NNI
  chantiers,         \* job id -> job record
  simulationMode,    \* planning-display.js: a simulation is going on
  chantierEnAttenteAffectation,  \* the job waiting for a preparer (0: null)
  ownerAtStart,      \* preparateur of that job when its simulation started
  margesGlobales,    \* the projection the last render pass computed
  before,            \* the job store as the last call of repartitionAutomatique found it
  lastAction,        \* the handler that ran last
  nops               \* number of handlers run so far

vars ==
  <<now, clock, nowId, data, preparateursMeta, chantiers, simulationMode,
    chantierEnAttenteAffectation, ownerAtStart, margesGlobales, before,
    lastAction, nops>>

\* What only the simulation and the page load write.
simVars ==
  <<clock, nowId, simulationMode, chantierEnAttenteAffectation, ownerAtStart>>

MaxOps == 2

\* The number of handlers of a simulation a behaviour of SimSpec runs.
MaxSimOps == 4

\* The ids typed in the creation sidebar: the two loaded jobs and a new one.
SimIds == {1, 2, 3}

\* The texts of the elements the mouse moves over: the row headers of the
\* preparers and any other element.
HoverTexts == Names \cup {"Planning"}

Ids == {1, 2}

PrepTimes == {1200, 5000}

EndDates == {<<10, 1, 2024>>, <<20, 11, 2026>>, <<1, 1, 2027>>}

EditStatuses == {"Nouveau", "Prepare"}

NNIs == {"N1", "N2"}

Num(m) == [shape |-> "number", minutes |-> m, updatedAt |-> 0]

Obj(m, t) == [shape |-> "object", minutes |-> m, updatedAt |-> t]

\* The week maps a user pastes in the availability dialog (weekKey -> minutes).
AvailInputs ==
  { [k \in {<<2026, 45>>, <<2026, 46>>, <<2026, 47>>} |-> 2400],
    (<<2024, 2>> :> 2400) @@ (<<2026, 45>> :> 1200),
    (<<2026, 45>> :> 0) @@ (<<2026, 46>> :> 1200) }

Job(st, pt, e, pr) ==
  [status |-> st, prepTime |-> pt, endDate |-> e, preparateur |-> pr,
   planification |-> <<>>, ChargeRestante |-> Absent,
   simulOriginalPrep |-> Absent]

\* The availabilities loadDataFromAPI brings: legacy bare numbers.  A has
\* three weeks of November 2026; B has the first two calendar weeks and one
\* week of November 2026.
LoadedData ==
  ("A" :> [k \in {<<2026, 45>>, <<2026, 46>>, <<2026, 47>>} |-> Num(2400)])
  @@ ("B" :> ((<<2024, 1>> :> Num(2400)) @@ (<<2024, 2>> :> Num(1200))
              @@ (<<2026, 46>> :> Num(1200))))

\* The jobs as they were imported: job 1 on A, job 2 (earlier deadline) on o.
ImportedJobs(o) ==
  (1 :> Job("Nouveau", 5000, <<20, 11, 2026>>, "A"))
  @@ (2 :> Job("Prepa. en cours", 1200, <<10, 1, 2024>>, o))

(***************************************************************************)
(* planning-display.js: the capacity projection of renderGrid              *)
(*                                                                         *)
(* Hours are kept as the minutes they stand for (dispoH = mins / 60,       *)
(* C = chargeEcheance / 60): sums, comparisons and minima are those of the *)
(* code, in exact arithmetic.                                              *)
(***************************************************************************)

RECURSIVE SumSet(_, _)
\* Sum of f[x] over the finite set S.
SumSet(f, S) ==
  IF S = {} THEN 0
  ELSE LET x == CHOOSE y \in S : TRUE IN f[x] + SumSet(f, S \ {x})

\* weeks.findIndex(w => w.id === nowId); 0 is the code's -1.
currentIndex(id) ==
  LET S == {i \in 1..NWeeks : weeks[i].id = id}
  IN IF S = {} THEN 0 ELSE CHOOSE i \in S : \A j \in S : i <= j

\* mins of lines 151-154 without its else branch: a bare number is read as 0.
StoredMinsObjectOnly(stored) ==
  IF stored.shape = "object" THEN stored.minutes ELSE 0

\* mins of lines 151-154 for a stored availability.
StoredMins(stored) ==
  IF stored.shape = "object"
  THEN (IF stored.minutes # 0 THEN stored.minutes ELSE 0)
  ELSE stored.minutes

\* mins for preparer `name` under key k (stored undefined: 0).
mins(dat, name, k) == IF k \in DOMAIN dat[name] THEN StoredMins(dat[name][k]) ELSE 0

\* dateEch = new Date(`${y}-${m}-${d}`) as a day number.
dateEch(e) == DayOf(e[3], e[2], e[1])

\* <<echYear, echWeek>> of lines 162-163 for every deadline a job can carry.
Echeance == [e \in EndDates |-> <<getFullYear(dateEch(e)), getWeek(dateEch(e))>>]

\* The function f as an explicit table (the same function).
Table(f) == f @@ <<>>

\* The one element of a set of one element: The({e(x) : x \in {v}}) is e(v),
\* with v computed once.
The(S) == CHOOSE x \in S : TRUE

\* What lines 158-172 read of job c, which does not depend on the week the
\* loop is at: its prepTime, <<echYear, echWeek>>, and
\* isPastEcheance && plannedThisOrLater (ci is the current week).
EcheanceOf(c, ci) ==
  LET echWeek == Echeance[c.endDate][2]
      echYear == Echeance[c.endDate][1]
      currentWeekNumber == weekKeys[ci][2]
      currentYear == weekKeys[ci][1]
      isPastEcheance ==
        echYear < currentYear \/ (echYear = currentYear /\ echWeek < currentWeekNumber)
      plannedThisOrLater ==
        \E k \in DOMAIN c.planification :
          k[1] > currentYear \/ (k[1] = currentYear /\ k[2] >= currentWeekNumber)
  IN [prepTime |-> c.prepTime, ech |-> <<echYear, echWeek>>,
      late |-> isPastEcheance /\ plannedThisOrLater]

\* The jobs the forEach of line 157 does not skip for preparer `name` (lines
\* 158-159), with what it reads of them.
Echeances(ch, name, ci) ==
  Table([id \in {j \in DOMAIN ch : ch[j].preparateur = name /\ IsActive(ch[j])} |->
           EcheanceOf(ch[id], ci)])

\* Lines 173-176: the job read as e counts in the chargeEcheance of week i
\* (isCurrent: week i has the week number and the year of the current week).
CountsInWeek(e, i, ci) ==
  \/ e.ech = weekKeys[i]
  \/ (weekKeys[i] = weekKeys[ci] /\ e.late)

\* chargeEcheance of week i (lines 156-180) for the jobs read as echs.
chargeEcheance(echs, i, ci) ==
  LET J == {id \in DOMAIN echs : CountsInWeek(echs[id], i, ci)}
  IN SumSet([id \in J |-> echs[id].prepTime], J)

\* The weeks in which the loop of lines 146-187 can read an availability of
\* `name` or add a charge for the jobs read as echs: the weeks of the stored
\* keys, of the deadlines and of the key of the current week.
EventWeeks(echs, dat, name, ci) ==
  UNION {WeeksOfKey[k] :
           k \in ((DOMAIN dat[name]) \cup {echs[id].ech : id \in DOMAIN echs}
                    \cup {weekKeys[ci]}) \cap AllKeys}

RECURSIVE MargeWeeks(_, _, _, _, _, _, _, _)
\* The for loop of lines 146-187 over the weeks lo..hi, entered with
\* margePrec: the records {dispo, C, CA, M} these weeks write, in order.  The
\* range is walked as two halves, the second entered with the M the first
\* ends on; a range without a week of `events` has mins = 0 and
\* chargeEcheance = 0 in every week, which all write CA = M = margePrec.
MargeWeeks(echs, dat, name, ci, events, lo, hi, margePrec) ==
  IF lo > hi THEN <<>>
  ELSE IF events \cap (lo..hi) = {}
  THEN [p \in 1..(hi - lo + 1) |->
          [dispo |-> 0, C |-> 0, CA |-> margePrec, M |-> margePrec]]
  ELSE IF lo = hi
  THEN LET dispoH == mins(dat, name, weekKeys[lo])
           C == chargeEcheance(echs, lo, ci)
           CA == dispoH + margePrec
       IN << [dispo |-> dispoH, C |-> C, CA |-> CA, M |-> CA - C] >>
  ELSE The(UNION {
         {left \o MargeWeeks(echs, dat, name, ci, events, mid + 1, h, left[Len(left)].M)
            : left \in {MargeWeeks(echs, dat, name, ci, events, l, mid, m)}}
            : l \in {lo}, h \in {hi}, m \in {margePrec}, mid \in {(lo + hi) \div 2}})

\* The last week that carries the key of week i: the week whose writes
\* margesGlobales[name][weekKey] keeps.
Writer == [i \in 1..NWeeks |-> weekMap[weekKeys[i]]]

\* margesGlobales[name] after line 188, read through keys[p] for every
\* position p of keys (keys[p] is the key of week ci + p - 1).
MargesOf(ch, dat, name, ci) ==
  The(UNION {UNION {
    {Table([p \in 1..(NWeeks - ci + 1) |-> byWeek[Writer[ci + p - 1] - ci + 1]])
       : byWeek \in {MargeWeeks(e, dat, name, ci, events, ci, NWeeks, 0)}}
       : events \in {EventWeeks(e, dat, name, ci)}}
       : e \in {Echeances(ch, name, ci)}})

RECURSIVE LeastOver(_, _)
\* For every position p of keys, the least M read at the positions
\* p .. p + w - 1, clamped at the end of keys: minM after w turns of the
\* inner loop of lines 199-202 started at p.  w is a power of 2, and a window
\* of w positions is two windows of w / 2 positions.
LeastOver(recs, w) ==
  IF w = 1 THEN Table([p \in 1..Len(recs) |-> recs[p].M])
  ELSE The({Table([p \in 1..Len(recs) |->
                     IF p + (w \div 2) <= Len(recs)
                     THEN Min(half[p], half[p + (w \div 2)])
                     ELSE half[p]])
              : half \in {LeastOver(recs, w \div 2)}})

\* The window of lines 198-202 without its first position (the last position
\* keeps itself).
minMNextWeeks(least, idx) ==
  IF idx = Len(least) THEN least[idx] ELSE least[idx + 1]

\* minM of lines 198-202 for position idx: the least M read at the positions
\* idx .. idx + 15, clamped at the end of keys (least is LeastOver(recs, 16)).
minM(least, idx) == least[idx]

\* Tdisp as read through keys[p] after line 205: the minM of the last
\* position that carries the key.
TdispOf(recs, ci) ==
  The({Table([p \in 1..Len(recs) |-> minM(least, Writer[ci + p - 1] - ci + 1)])
         : least \in {LeastOver(recs, 16)}})

\* Half-unit rounding of hours, on minutes: Math.round(h * 2) / 2.
RoundHalf(m) == 30 * ((m + 15) \div 30)

\* Lines 217-227 for one week: the badge, and lastTdisp after it (<<>> is
\* null, <<v>> the number v).
BadgeStep(dispo, raw, lastTdisp) ==
  IF dispo > 0
  THEN [badge |-> IF lastTdisp = <<>> THEN <<RoundHalf(raw)>>
                  ELSE IF raw # lastTdisp[1]
                       THEN <<RoundHalf(IF lastTdisp[1] > 0 THEN raw - lastTdisp[1] ELSE raw)>>
                       ELSE <<>>,
        last |-> <<raw>>]
  ELSE [badge |-> <<>>, last |-> lastTdisp]

RECURSIVE BadgeWeeks(_, _, _, _, _)
\* keys.forEach of lines 215-229 over the positions lo..hi, entered with
\* lastTdisp: the badges these positions write, in order, and lastTdisp
\* after them.
BadgeWeeks(recs, tdisp, lo, hi, lastTdisp) ==
  IF lo > hi THEN [badges |-> <<>>, last |-> lastTdisp]
  ELSE IF lo = hi
  THEN The({[badges |-> <<st.badge>>, last |-> st.last]
              : st \in {BadgeStep(recs[lo].dispo, tdisp[lo], lastTdisp)}})
  ELSE The(UNION {UNION {
         {[badges |-> left.badges \o right.badges, last |-> right.last]
            : right \in {BadgeWeeks(recs, tdisp, mid + 1, h, left.last)}}
            : left \in {BadgeWeeks(recs, tdisp, l, mid, lastTdisp)}}
            : l \in {lo}, h \in {hi}, mid \in {(lo + hi) \div 2}})

\* margesGlobales[name] after line 230, by position of keys:
\* {dispo, C, CA, M, Tdisp, badge} as read through keys[p].
ProjectionOf(ch, dat, name, ci) ==
  The(UNION {UNION {
    {Table([p \in 1..Len(recs) |->
        [dispo |-> recs[p].dispo, C |-> recs[p].C, CA |-> recs[p].CA,
         M |-> recs[p].M, Tdisp |-> tdisp[p],
         badge |-> badges[Writer[ci + p - 1] - ci + 1]]])
       : badges \in {BadgeWeeks(recs, tdisp, 1, Len(recs), <<>>).badges}}
       : tdisp \in {TdispOf(recs, ci)}}
       : recs \in {MargesOf(ch, dat, name, ci)}})

\* margesGlobales as a render pass leaves it when the page was loaded in the
\* week `id`: for every preparer of data, the record read under the key of
\* week i is renderGrid(ch, dat, id)[name][i - ci + 1].  Without a current
\* week line 138 throws and nothing is computed (<<>>).
renderGrid(ch, dat, id) ==
  The({IF c = 0 THEN <<>>
       ELSE Table([name \in DOMAIN dat |-> ProjectionOf(ch, dat, name, c)])
         : c \in {currentIndex(id)}})

\* The readings of the clock at which the page is loaded.
LoadAnchors == {1, 3}

\* The stores as loadDataFromAPI leaves them: two preparers and two jobs,
\* planned by the import handler of an earlier session in the first calendar
\* week (openBulkChantiersInterface ends with repartitionAutomatique()).
Init ==
  /\ now \in LoadAnchors
  /\ clock = Anchors[now]
  /\ nowId = NowIdOf(clock)
  /\ simulationMode = FALSE
  /\ chantierEnAttenteAffectation = 0
  /\ ownerAtStart = NoPrep
  /\ preparateursMeta = ("A" :> "N1") @@ ("B" :> "N2")
  /\ data = LoadedData
  /\ \E o \in Names :
       /\ before = ImportedJobs(o)
       /\ chantiers = repartitionAutomatique(ImportedJobs(o), LoadedData, 1)
  /\ lastAction = "load"
  /\ nops = 0
  /\ margesGlobales = renderGrid(chantiers, data, nowId)

\* The wall clock moves on between two handlers.
Tick ==
  /\ nops < MaxOps
  /\ \E a \in (now + 1)..Len(Anchors) : now' = a
  /\ lastAction' = "Tick"
  /\ nops' = nops + 1
  /\ UNCHANGED <<data, preparateursMeta, chantiers, before, simVars, margesGlobales>>

\* A run that writes the minutes it read back in the object shape.
dataNormalised(dat) ==
  [n \in DOMAIN dat |->
     [k \in DOMAIN dat[n] |-> Obj(StoredMinutes(dat[n][k]), dat[n][k].updatedAt)]]

\* data as a run of repartitionAutomatique leaves it: lines 43-50 read
\* data[name][key] into the local dispoParSemaine, and no statement of the
\* function assigns to data or to one of its records.
dataAfterRun(dat) == dat

\* A handler that edits the job store to `edited`, then calls
\* repartitionAutomatique() and renderAll().
EditThenRepartition(edited, name) ==
  /\ nops < MaxOps
  /\ before' = edited
  /\ chantiers' = repartitionAutomatique(edited, data, now)
  /\ lastAction' = name
  /\ nops' = nops + 1
  /\ data' = dataAfterRun(data)
  /\ UNCHANGED <<now, preparateursMeta, simVars>>
  /\ margesGlobales' = renderGrid(chantiers', data', nowId)

\* chantiers.js, enterEditMode, the save button.
SaveJob ==
  \E id \in Ids, st \in EditStatuses, pt \in PrepTimes, e \in EndDates :
    EditThenRepartition(
      [chantiers EXCEPT ![id].status = st, ![id].prepTime = pt, ![id].endDate = e],
      "SaveJob")

\* chantiers.js, refreshTable, the "close" button of a row.
CloseJob ==
  \E id \in Ids :
    EditThenRepartition([chantiers EXCEPT ![id].status = "Cloture"], "CloseJob")

\* chantiers.js, refreshTable, the "cancel" button of a row.
CancelJob ==
  \E id \in Ids :
    EditThenRepartition([chantiers EXCEPT ![id].status = "Annule"], "CancelJob")

\* availability.js, save.onclick: the pasted map, one NNI.
SavedData(dat, meta, nni, weeksMap, t) ==
  LET names == {n \in DOMAIN meta : meta[n] = nni}
  IN [n \in (DOMAIN dat) \cup names |->
        IF n \in names
        THEN LET old == IF n \in DOMAIN dat THEN dat[n] ELSE <<>>
             IN [k \in (DOMAIN old) \cup (DOMAIN weeksMap) |->
                   IF k \in DOMAIN weeksMap THEN Obj(weeksMap[k], t) ELSE old[k]]
        ELSE dat[n]]

\* availability.js, save.onclick: data is rewritten and renderAll() is called;
\* repartitionAutomatique() is not.
SaveAvailability ==
  /\ nops < MaxOps
  /\ \E nni \in NNIs, weeksMap \in AvailInputs :
       data' = SavedData(data, preparateursMeta, nni, weeksMap, now)
  /\ lastAction' = "SaveAvailability"
  /\ nops' = nops + 1
  /\ UNCHANGED <<now, preparateursMeta, chantiers, before, simVars>>
  /\ margesGlobales' = renderGrid(chantiers, data', nowId)

\* removePreparateur(p), the confirm() accepted: renderAll(), no reallocation.
RemovePreparateur ==
  /\ nops < MaxOps
  /\ \E p \in DOMAIN data :
       /\ data' = [n \in (DOMAIN data) \ {p} |-> data[n]]
       /\ preparateursMeta' = [n \in (DOMAIN preparateursMeta) \ {p} |-> preparateursMeta[n]]
  /\ lastAction' = "RemovePreparateur"
  /\ nops' = nops + 1
  /\ UNCHANGED <<now, chantiers, before, simVars>>
  /\ margesGlobales' = renderGrid(chantiers, data', nowId)

\* A render pass that empties the allocation maps it has displayed.
chantiersAfterRenderCleared(ch) == [id \in DOMAIN ch |-> [ch[id] EXCEPT !.planification = <<>>]]

\* chantiers as a render pass leaves it: renderGrid reads ch.preparateur,
\* ch.status, ch.endDate, ch.prepTime and ch.planification and assigns to
\* margesGlobales and to the page only.
chantiersAfterRender(ch) == ch

\* data as a render pass leaves it: renderGrid reads data[name][weekKey].
dataAfterRender(dat) == dat

\* main.js, the slider of visible weeks (input): renderGrid() and no edit.
Render ==
  /\ nops < MaxOps
  /\ chantiers' = chantiersAfterRender(chantiers)
  /\ data' = dataAfterRender(data)
  /\ margesGlobales' = renderGrid(chantiers', data', nowId)
  /\ lastAction' = "Render"
  /\ nops' = nops + 1
  /\ UNCHANGED <<now, preparateursMeta, before, simVars>>

Next ==
  \/ Tick
  \/ SaveJob
  \/ CloseJob
  \/ CancelJob
  \/ SaveAvailability
  \/ RemovePreparateur
  \/ Render

Spec == Init /\ [][Next]_vars

(***************************************************************************)
(* The page loaded at any instant of the calendar                          *)
(***************************************************************************)

\* The times of day at which the clock is read: midnight and 23:00.
DayMinutes == {0, 1380}

\* The first and the last day of the calendar.
FirstDay == weeks[1].start
LastDay == weeks[NWeeks].end

\* The instant after t at which the page is loaded next: the next time of
\* the same day, or the first time of the next day; none after the calendar.
LaterInstants(t) ==
  IF \E x \in DayMinutes : x > t.min
  THEN {[day |-> t.day, min |-> CHOOSE x \in DayMinutes :
                                  x > t.min /\ \A y \in DayMinutes : y > t.min => x <= y]}
  ELSE IF t.day < LastDay
  THEN {[day |-> t.day + 1, min |-> CHOOSE x \in DayMinutes : \A y \in DayMinutes : x <= y]}
  ELSE {}

\* The page is loaded on the first day of the calendar: the stores are those
\* of Init.
LoadInit ==
  /\ now = 1
  /\ clock = [day |-> FirstDay, min |-> 0]
  /\ nowId = NowIdOf(clock)
  /\ simulationMode = FALSE
  /\ chantierEnAttenteAffectation = 0
  /\ ownerAtStart = NoPrep
  /\ preparateursMeta = ("A" :> "N1") @@ ("B" :> "N2")
  /\ data = LoadedData
  /\ \E o \in Names :
       /\ before = ImportedJobs(o)
       /\ chantiers = repartitionAutomatique(ImportedJobs(o), LoadedData, 1)
  /\ lastAction = "load"
  /\ nops = 0
  /\ margesGlobales = renderGrid(chantiers, data, nowId)

\* initApp at a later instant t: loadDataFromAPI brings the stores as they
\* were imported, nowId is read from the clock, renderAll() shows them.
Reload ==
  /\ lastAction = "load"
  /\ \E t \in LaterInstants(clock) :
       /\ clock' = t
       /\ nowId' = NowIdOf(t)
  /\ data' = LoadedData
  /\ preparateursMeta' = ("A" :> "N1") @@ ("B" :> "N2")
  /\ \E o \in {before[2].preparateur} :
       /\ before' = ImportedJobs(o)
       /\ chantiers' = repartitionAutomatique(ImportedJobs(o), LoadedData, 1)
  /\ margesGlobales' = renderGrid(chantiers', data', nowId')
  /\ lastAction' = "load"
  /\ UNCHANGED <<now, simulationMode, chantierEnAttenteAffectation, ownerAtStart, nops>>

\* The edit form saved with the values it opened with, the clock still at
\* the instant of the load: repartitionAutomatique() then renderAll().
Resave ==
  /\ lastAction = "load"
  /\ before' = chantiers
  /\ chantiers' = Repartition(chantiers, data, currentWeekIdx(clock))
  /\ margesGlobales' = renderGrid(chantiers', data, nowId)
  /\ lastAction' = "Resave"
  /\ UNCHANGED <<now, clock, nowId, data, preparateursMeta, simulationMode,
                 chantierEnAttenteAffectation, ownerAtStart, nops>>

LoadNext ==
  \/ Reload
  \/ Resave

LoadSpec == LoadInit /\ [][LoadNext]_vars

(***************************************************************************)
(* planning-display.js: the simulation of the creation sidebar             *)
(***************************************************************************)

\* x || null for a stored _simulOriginalPrep: undefined and null give null.
OrNull(x) == IF x = Absent THEN NoPrep ELSE x[1]

\* btnSimulation click: the job the form describes, created with
\* {preparateur: null} when the id is new, its fields written from the form.
FormJob(ch, id, st, pt, e) ==
  [x \in (DOMAIN ch) \cup {id} |->
     IF x # id THEN ch[x]
     ELSE IF id \in DOMAIN ch
     THEN [ch[id] EXCEPT !.status = st, !.prepTime = pt, !.endDate = e]
     ELSE Job(st, pt, e, NoPrep)]

\* What a handler of the simulation leaves alone.
simFrame == <<now, clock, nowId, data, preparateursMeta>>

\* btnSimulation click, the button not yet 'clicked': "Debut simulation".
StartSimulation ==
  /\ nops < MaxSimOps
  /\ ~simulationMode
  /\ \E id \in SimIds, st \in EditStatuses, pt \in {1200}, e \in {<<20, 11, 2026>>} :
       LET ch == FormJob(chantiers, id, st, pt, e)
       IN /\ chantiers' = [ch EXCEPT ![id].simulOriginalPrep = <<ch[id].preparateur>>]
          /\ chantierEnAttenteAffectation' = id
          /\ ownerAtStart' = ch[id].preparateur
  /\ simulationMode' = TRUE
  /\ lastAction' = "StartSimulation"
  /\ nops' = nops + 1
  /\ UNCHANGED <<simFrame, before, margesGlobales>>

\* simulateOver, the mouse entering an element whose text is txt.
SimulateOver ==
  /\ nops < MaxSimOps
  /\ simulationMode
  /\ chantierEnAttenteAffectation # 0
  /\ chantierEnAttenteAffectation \in DOMAIN chantiers
  /\ \E txt \in HoverTexts :
       /\ txt \in DOMAIN preparateursMeta
       /\ LET id == chantierEnAttenteAffectation
              kept == IF chantiers[id].simulOriginalPrep = Absent
                      THEN <<chantiers[id].preparateur>>
                      ELSE chantiers[id].simulOriginalPrep
          IN before' = [chantiers EXCEPT ![id].simulOriginalPrep = kept,
                                         ![id].preparateur = txt]
  /\ chantiers' = repartitionAutomatique(before', data, now)
  /\ margesGlobales' = renderGrid(chantiers', data, nowId)
  /\ lastAction' = "SimulateOver"
  /\ nops' = nops + 1
  /\ UNCHANGED <<simFrame, simulationMode, chantierEnAttenteAffectation, ownerAtStart>>

\* simulateOut, the mouse leaving any element.
SimulateOut ==
  /\ nops < MaxSimOps
  /\ simulationMode
  /\ chantierEnAttenteAffectation # 0
  /\ chantierEnAttenteAffectation \in DOMAIN chantiers
  /\ LET id == chantierEnAttenteAffectation
     IN before' = [chantiers EXCEPT
                     ![id].preparateur = OrNull(chantiers[id].simulOriginalPrep),
                     ![id].simulOriginalPrep = Absent]
  /\ chantiers' = repartitionAutomatique(before', data, now)
  /\ margesGlobales' = renderGrid(chantiers', data, nowId)
  /\ lastAction' = "SimulateOut"
  /\ nops' = nops + 1
  /\ UNCHANGED <<simFrame, simulationMode, chantierEnAttenteAffectation, ownerAtStart>>

\* btnSimulation click, the button 'clicked': "Fin simulation".  The inputs
\* are disabled since the start, so the form writes the fields it wrote then.
EndSimulation ==
  /\ nops < MaxSimOps
  /\ simulationMode
  /\ \E id \in {chantierEnAttenteAffectation} :
       chantiers' =
         IF chantiers[id].simulOriginalPrep # Absent
         THEN [chantiers EXCEPT
                 ![id].preparateur = OrNull(chantiers[id].simulOriginalPrep),
                 ![id].simulOriginalPrep = Absent]
         ELSE chantiers
  /\ simulationMode' = FALSE
  /\ chantierEnAttenteAffectation' = 0
  /\ margesGlobales' = renderGrid(chantiers', data, nowId)
  /\ lastAction' = "EndSimulation"
  /\ nops' = nops + 1
  /\ UNCHANGED <<simFrame, before, ownerAtStart>>

SimNext ==
  \/ StartSimulation
  \/ SimulateOver
  \/ SimulateOut
  \/ EndSimulation

SimSpec == Init /\ [][SimNext]_vars

(***************************************************************************)
(* Reading the stores week by week                                         *)
(***************************************************************************)

\* currentWeekIdx at the current reading of the clock (0: no current week).
cur == AnchorWeek[now]

\* The handlers that call repartitionAutomatique().
Ran == lastAction \in {"SaveJob", "CloseJob", "CancelJob"}

\* The last handler called repartitionAutomatique() and it found a current week.
Planned == Ran /\ cur # 0

\* Minutes of job record c in week i: what planification holds under the key
\* of week i (the lookup of the allocation loop and of the grid).
AllocAt(c, i) == PlanAt(c.planification, weekKeys[i])

\* Availability of preparer r in week i.
DispoAt(r, i) == dispoParSemaine(data, r, weekKeys[i])

\* Key k is the key of some week from week c on / of some week before week c.
IsFutureKey(k, c) == k \in AllKeys /\ \E i \in WeeksOfKey[k] : i >= c
IsPastKey(k, c) == k \in AllKeys /\ \E i \in WeeksOfKey[k] : i < c

\* Sum of the entries of p under the keys of S, each entry once.
SumKeys(p, S) == SumPlan(PlanRestrict(p, S))

\* Sum of the entries of p for the weeks from week c on / before week c.
FutureSum(p, c) == SumKeys(p, {k \in DOMAIN p : IsFutureKey(k, c)})
PastSum(p, c) == SumKeys(p, {k \in DOMAIN p : IsPastKey(k, c)})

\* Sum of the entries of p that belong to no week from week c on.
OnlyPastSum(p, c) == SumKeys(p, {k \in DOMAIN p : ~IsFutureKey(k, c)})

\* The index of the current week of the render pass (0: no such week).
ci == currentIndex(nowId)

\* The active jobs of preparer r in job store ch.
ActiveOf(ch, r) == {id \in DOMAIN ch : ch[id].preparateur = r /\ IsActive(ch[id])}

\* Minutes the active jobs of r hold together in week i.
LoadAt(ch, r, i) == SumSet([id \in ActiveOf(ch, r) |-> AllocAt(ch[id], i)], ActiveOf(ch, r))

\* The weeks from `cur` on in which r has availability or one of its active
\* jobs holds minutes (in every other week both are 0).
BusyWeeks(r) ==
  {i \in WeeksWithDispo(data, r)
         \cup UNION {WeeksOfKey[k] : k \in UNION {(DOMAIN chantiers[id].planification) \cap AllKeys :
                                                    id \in ActiveOf(chantiers, r)}} :
     i >= cur}

PlansOf(ch) == [id \in DOMAIN ch |-> ch[id].planification]

(***************************************************************************)
(* Idempotence                                                             *)
(***************************************************************************)

\* C1: reallocation is idempotent.  For the job store and the capacity store
\* of any reachable state and the anchor of that state, running
\* repartitionAutomatique a second time leaves every job's allocation map as
\* the first run produced it; in particular, right after a handler that ran
\* it, one more run changes no allocation map.
C1_Idempotent ==
  LET once == repartitionAutomatique(chantiers, data, now)
  IN /\ PlansOf(repartitionAutomatique(once, data, now)) = PlansOf(once)
     /\ Ran => PlansOf(once) = PlansOf(chantiers)

\* A run that found a current week, rewrote some allocation map, left an
\* active job with minutes from the current week on and a job out of the
\* active statuses.
C1_Witness ==
  /\ Planned
  /\ PlansOf(chantiers) # PlansOf(before)
  /\ \E id \in DOMAIN chantiers :
       IsActive(chantiers[id]) /\ FutureSum(chantiers[id].planification, cur) > 0
  /\ \E id \in DOMAIN chantiers : ~IsActive(chantiers[id])

(***************************************************************************)
(* Conservation                                                            *)
(***************************************************************************)

TotalAvail(r) ==
  LET FK == {k \in DOMAIN data[r] : IsFutureKey(k, cur)}
  IN SumSet([k \in FK |-> dispoParSemaine(data, r, k)], FK)

\* Remaining effort of job id as the run found it: requiredMinutes minus the
\* minutes of the weeks before the current week, floored at 0.
RemainingEffort(id) ==
  Max(0, before[id].prepTime - PastSum(before[id].planification, cur))

\* C3 as stated: after a run that found a current week, a preparer whose
\* availability from the current week on is at least the remaining effort of
\* all its active jobs has every active job planned from the current week on
\* for exactly its remaining effort.
C3_Original ==
  Planned =>
    \A r \in DOMAIN data :
      LET J == ActiveOf(chantiers, r)
      IN TotalAvail(r) >= SumSet([id \in J |-> RemainingEffort(id)], J) =>
           \A id \in J :
             FutureSum(chantiers[id].planification, cur) = RemainingEffort(id)

(***************************************************************************)
(* Priority                                                                *)
(***************************************************************************)

\* The job store the run found, the other active jobs of the preparer of
\* job a taken off that preparer.
AloneStore(a) ==
  [id \in DOMAIN before |->
     IF id # a /\ IsActive(before[id]) /\ before[id].preparateur = before[a].preparateur
     THEN [before[id] EXCEPT !.preparateur = NoPrep]
     ELSE before[id]]

\* The allocation map job a gets when it is alone on its preparer.
AlonePlan(a) == repartitionAutomatique(AloneStore(a), data, now)[a].planification

\* Job a is active on r with other active jobs, all of strictly later deadline.
EarliestOf(a, r) ==
  /\ a \in ActiveOf(chantiers, r)
  /\ ActiveOf(chantiers, r) # {a}
  /\ \A b \in ActiveOf(chantiers, r) \ {a} :
       parseDateFR(chantiers[a].endDate) < parseDateFR(chantiers[b].endDate)

\* C4: after a run that found a current week, the active job of a preparer
\* whose deadline is strictly the earliest holds, in every week from the
\* current week on, at least the minutes it would hold were it alone on that
\* preparer.
C4_DeadlinePriority ==
  Planned =>
    \A r \in DOMAIN data : \A a \in DOMAIN chantiers :
      EarliestOf(a, r) =>
        LET alone == AlonePlan(a)
        IN \A i \in cur..NWeeks : AllocAt(chantiers[a], i) >= PlanAt(alone, weekKeys[i])

\* Two active jobs of one preparer want more than a week has: the one with
\* the earlier deadline holds minutes there, the other holds less than it
\* would alone.
C4_Witness ==
  /\ Planned
  /\ \E r \in DOMAIN data : \E a \in DOMAIN chantiers :
       /\ EarliestOf(a, r)
       /\ \E b \in ActiveOf(chantiers, r) \ {a} : \E i \in BusyWeeks(r) :
            /\ RemainingEffort(a) + RemainingEffort(b) > DispoAt(r, i)
            /\ AllocAt(chantiers[a], i) > 0
            /\ AllocAt(chantiers[b], i) < PlanAt(AlonePlan(b), weekKeys[i])

(***************************************************************************)
(* Deprogramming and history                                               *)
(***************************************************************************)

\* Job id holds the same entry under key k before and after the run.
SameEntry(id, k) ==
  /\ k \in DOMAIN before[id].planification <=> k \in DOMAIN chantiers[id].planification
  /\ PlanAt(before[id].planification, k) = PlanAt(chantiers[id].planification, k)

\* C5 as stated: after a run that found a current week, a job out of the
\* active statuses has no entry for a week from the current week on, and its
\* entries for the weeks before the current week are as the run found them.
C5_Original ==
  Planned =>
    \A id \in DOMAIN chantiers :
      ~IsActive(chantiers[id]) =>
        /\ \A i \in cur..NWeeks : weekKeys[i] \notin DOMAIN chantiers[id].planification
        /\ \A i \in 1..(cur - 1) : SameEntry(id, weekKeys[i])

\* C6 as stated: a run that found a current week adds, removes or changes no
\* entry of any job for a week before the current week.
C6_Original ==
  Planned =>
    \A id \in DOMAIN chantiers : \A i \in 1..(cur - 1) : SameEntry(id, weekKeys[i])

(***************************************************************************)
(* Greedy fill                                                             *)
(***************************************************************************)

\* Minutes of job record c in the weeks of S.
AllocIn(c, S) == SumSet([i \in S |-> AllocAt(c, i)], S)

\* C7 as stated: after a run that found a current week, the n-th job of a
\* preparer in deadline order holds in each week from the current week on
\* exactly min(remaining, free): remaining is its effort less its past minutes
\* and less its minutes of the earlier weeks from the current week on, free is
\* the availability of the week less the minutes of the jobs before it in the
\* order.  (In a week outside BusyWeeks both sides are 0.)
C7_Original ==
  Planned =>
    \A r \in DOMAIN data :
      LET list == chantierList(chantiers, r)
      IN \A n \in 1..Len(list) : \A i \in BusyWeeks(r) :
           LET c == chantiers[list[n]]
               remaining == c.prepTime - OnlyPastSum(c.planification, cur)
                              - AllocIn(c, {j \in BusyWeeks(r) : j < i})
               free == Max(0, DispoAt(r, i)
                                - SumSet([m \in 1..(n - 1) |-> AllocAt(chantiers[list[m]], i)],
                                         1..(n - 1)))
           IN AllocAt(c, i) = Max(0, Min(remaining, free))

\* C8: reallocation has no feasibility check.  After a run that found a
\* current week, an active job of a preparer that is short of its
\* requiredMinutes leaves no week from the current week on, before or after
\* its deadline, with availability of that preparer unused.
C8_NoFeasibilityCheck ==
  Planned =>
    \A r \in DOMAIN data : \A id \in ActiveOf(chantiers, r) :
      chantiers[id].prepTime - SumPlan(chantiers[id].planification) > 0 =>
        \A i \in BusyWeeks(r) : LoadAt(chantiers, r, i) >= DispoAt(r, i)

\* A job whose deadline is before the current week got minutes in a week
\* after its deadline and stays short of its requiredMinutes, the future
\* availability of its preparer being smaller than its remaining effort.
C8_Witness ==
  /\ Planned
  /\ \E r \in DOMAIN data : \E id \in ActiveOf(chantiers, r) :
       /\ parseDateFR(chantiers[id].endDate) < weeks[cur].start
       /\ chantiers[id].prepTime - SumPlan(chantiers[id].planification) > 0
       /\ TotalAvail(r) < RemainingEffort(id)
       /\ \E i \in BusyWeeks(r) :
            /\ AllocAt(chantiers[id], i) > 0
            /\ AllocAt(before[id], i) = 0
            /\ weeks[i].start > parseDateFR(chantiers[id].endDate)

(***************************************************************************)
(* No current week                                                         *)
(***************************************************************************)

\* C9: when the anchor lies in no week of the calendar, the run leaves the
\* job store exactly as it found it (the handlers that call it do not touch
\* the capacity store).
C9_NoCurrentWeek == (Ran /\ cur = 0) => chantiers = before

\* A run outside the calendar on a store where a job out of the active
\* statuses still holds entries and an active job holds none.
C9_Witness ==
  /\ Ran
  /\ cur = 0
  /\ \E id \in DOMAIN chantiers :
       ~IsActive(chantiers[id]) /\ chantiers[id].planification # <<>>

(***************************************************************************)
(* Reallocation before render                                              *)
(***************************************************************************)

\* The handlers that change a job or an availability record.
Mutators == {"SaveJob", "CloseJob", "CancelJob", "SaveAvailability"}

\* C10 as stated: when a handler that changed a job or an availability record
\* reaches renderAll(), the allocation maps are those reallocation gives on
\* the new stores.
C10_Original ==
  lastAction \in Mutators =>
    PlansOf(chantiers) = PlansOf(repartitionAutomatique(chantiers, data, now))

(***************************************************************************)
(* Capacity projection                                                     *)
(***************************************************************************)

\* C11: for every preparer and every projected week, the tension Tdisp of
\* the week is at most its margin M.
C11_TensionBelowMargin ==
  \A m \in {margesGlobales} : \A r \in DOMAIN data : \A p \in 1..Len(m[r]) :
    m[r][p].Tdisp <= m[r][p].M

\* A projected week with availability whose tension is strictly below its
\* margin (a later week of the window carries a deadline), and one where
\* both are equal and positive.
C11_Witness ==
  \E m \in {margesGlobales} : \E r \in DOMAIN data : \E p, q \in 1..Len(m[r]) :
    /\ m[r][p].dispo > 0
    /\ m[r][p].Tdisp < m[r][p].M
    /\ m[r][q].Tdisp = m[r][q].M
    /\ m[r][q].M > 0

\* Week ci + p - 1 is the only week of the calendar with its key.
OwnKey(p) == WeeksOfKey[weekKeys[ci + p - 1]] = {ci + p - 1}

\* C12: a week without availability has no badge and still moves the badge
\* baseline: the badge of a week with availability that follows a week
\* without is computed against the Tdisp of that preceding week.
C12_Original ==
  \A m \in {margesGlobales} : \A r \in DOMAIN data : \A p \in 1..Len(m[r]) :
    /\ m[r][p].dispo = 0 => m[r][p].badge = <<>>
    /\ (p >= 2 /\ m[r][p].dispo > 0 /\ m[r][p - 1].dispo = 0 /\ OwnKey(p) /\ OwnKey(p - 1))
         => m[r][p].badge = BadgeStep(m[r][p].dispo, m[r][p].Tdisp, <<m[r][p - 1].Tdisp>>).badge

\* The calendar weeks that contain the deadline of job c.
DeadlineWeeks(c) ==
  {i \in 1..NWeeks : weeks[i].start <= dateEch(c.endDate) /\ dateEch(c.endDate) <= weeks[i].end}

\* The store with the allocation map of job id emptied.
Unplanned(ch, id) == [ch EXCEPT ![id].planification = <<>>]

\* C13: for an active job of a preparer of the projection whose deadline
\* week is projected, the chargeEcheance of that week includes the whole
\* prepTime of the job, and is the same with another allocation map for it.
C13_Original ==
  \A m \in {margesGlobales} : \A r \in DOMAIN data : \A id \in ActiveOf(chantiers, r) :
    \A i \in DeadlineWeeks(chantiers[id]) :
      i >= ci =>
        /\ m[r][i - ci + 1].C >= chantiers[id].prepTime
        /\ renderGrid(Unplanned(chantiers, id), data, nowId)[r][i - ci + 1].C
             = m[r][i - ci + 1].C

(***************************************************************************)
(* What a run and a render leave alone                                     *)
(***************************************************************************)

WeeksOfYear(y) == {i \in 1..NWeeks : weeks[i].id[2] = y}

\* The shape of the generated weeks: strictly ascending starts, each the day
\* after the previous end; Monday starts and ends 6 days later; no id twice;
\* for every year from FirstYear to LastYear the week numbers 1..n once
\* each, n being 52 or 53.
CalendarShape ==
  /\ \A i \in 1..(NWeeks - 1) :
       /\ weeks[i].start < weeks[i + 1].start
       /\ weeks[i + 1].start = weeks[i].end + 1
  /\ \A i \in 1..NWeeks :
       /\ getUTCDay(weeks[i].start) = 1
       /\ weeks[i].end = weeks[i].start + 6
       /\ weeks[i].id[2] \in FirstYear..LastYear
  /\ Cardinality({weeks[i].id : i \in 1..NWeeks}) = NWeeks
  /\ \A y \in FirstYear..LastYear :
       \E n \in {52, 53} :
         /\ {weeks[i].id[1] : i \in WeeksOfYear(y)} = 1..n
         /\ Cardinality(WeeksOfYear(y)) = n

\* C16: the generated weeks are in strictly ascending order; every year from
\* FirstYear to LastYear has its week numbers 1..n once each, n being 52 or
\* 53, so that the week the page was loaded in is named by one week at
\* most; every start is a Monday, every end is the start plus 6 days, and
\* every week starts the day after the week before it ends.
C16_CalendarShape ==
  /\ CalendarShape
  /\ Cardinality({i \in 1..NWeeks : weeks[i].id = nowId}) <= 1

\* The page has located its current week in a calendar that holds a year of
\* 53 weeks followed by week 1 of the next year, and a year of 52 weeks.
C16_Witness ==
  /\ ci >= 1 /\ weeks[ci].id = nowId
  /\ \E i \in 1..(NWeeks - 1) :
       weeks[i].id = <<53, 2026>> /\ weeks[i + 1].id = <<1, 2027>>
  /\ \E i \in 1..(NWeeks - 1) :
       weeks[i].id = <<52, 2024>> /\ weeks[i + 1].id = <<1, 2025>>

(***************************************************************************)
(* The two shapes of an availability record                                *)
(***************************************************************************)

\* The keys some availability of the model is stored under, and one more.
ProbeKeys ==
  UNION {DOMAIN LoadedData[n] : n \in DOMAIN LoadedData}
    \cup UNION {DOMAIN w : w \in AvailInputs} \cup {<<2026, 48>>}

\* The store with every record written in the other shape (a bare integer m
\* as {minutes: m, updatedAt}, an object as its bare minutes), and an
\* explicit record of 0 minutes for every probe key without a record (a bare
\* 0 for the preparers that store a bare integer, an object for the others).
OtherShapes(dat) ==
  [n \in DOMAIN dat |->
     [k \in ProbeKeys \cup DOMAIN dat[n] |->
        IF k \in DOMAIN dat[n]
        THEN (IF dat[n][k].shape = "number"
              THEN Obj(dat[n][k].minutes, 0)
              ELSE Num(dat[n][k].minutes))
        ELSE IF \E l \in DOMAIN dat[n] : dat[n][l].shape = "number"
             THEN Num(0) ELSE Obj(0, 0)]]

\* What the projection shows of its records: dispo, M, Tdisp and badge.
Shown(m) ==
  [n \in DOMAIN m |->
     [p \in DOMAIN m[n] |->
        <<m[n][p].dispo, m[n][p].M, m[n][p].Tdisp, m[n][p].badge>>]]

\* C17: with every availability record written in the other shape, and
\* records of 0 minutes in place of missing ones, the reallocation leaves
\* the same allocation maps and the projection shows the same dispo, M,
\* Tdisp and badge in every week as with the store as it is.
C17_ShapesEquivalent ==
  \A d \in {OtherShapes(data)} :
    /\ PlansOf(repartitionAutomatique(chantiers, d, now))
         = PlansOf(repartitionAutomatique(chantiers, data, now))
    /\ Shown(renderGrid(chantiers, d, nowId)) = Shown(margesGlobales)

\* A store that holds records of both shapes with minutes for one preparer,
\* whose active jobs are planned and whose projection shows a badge.
C17_Witness ==
  /\ Planned
  /\ \E r \in DOMAIN data :
       /\ \E k, l \in DOMAIN data[r] :
            /\ data[r][k].shape = "object" /\ data[r][k].minutes > 0
            /\ data[r][l].shape = "number" /\ data[r][l].minutes > 0
            /\ LoadAt(chantiers, r, weekMap[k]) > 0
            /\ LoadAt(chantiers, r, weekMap[l]) > 0
       /\ \E p \in 1..Len(margesGlobales[r]) : margesGlobales[r][p].badge # <<>>

(***************************************************************************)
(* Capacity and commitments after a run                                    *)
(***************************************************************************)

\* C18: after a run that found its current week, for every preparer of the
\* availability store and every week from the current week on, the minutes
\* the active jobs of the preparer hold together in the week are at most the
\* availability of the preparer for the week (0 when there is none).
C18_NoOverCommit ==
  Planned =>
    \A r \in DOMAIN data : \A i \in BusyWeeks(r) :
      LoadAt(chantiers, r, i) <= DispoAt(r, i)

\* After a run, two active jobs of one preparer share a week and fill it
\* exactly.
C18_Witness ==
  /\ Planned
  /\ \E r \in DOMAIN data : \E i \in BusyWeeks(r) : \E a, b \in ActiveOf(chantiers, r) :
       /\ a # b
       /\ AllocAt(chantiers[a], i) > 0
       /\ AllocAt(chantiers[b], i) > 0
       /\ LoadAt(chantiers, r, i) = DispoAt(r, i)

\* The weeks from the current week on under whose key job c holds an entry.
FutureEntries(c) ==
  {i \in cur..NWeeks : weekKeys[i] \in DOMAIN c.planification}

\* C19: after edits followed by a run that found its current week, a job
\* holds an allocation entry for a week from the current week on only if it
\* is active and its owner is a preparer of the availability store.
C19_Original ==
  Planned =>
    \A id \in DOMAIN chantiers :
      FutureEntries(chantiers[id]) # {} =>
        /\ IsActive(chantiers[id])
        /\ chantiers[id].preparateur \in DOMAIN data

(***************************************************************************)
(* The owner of a simulated job                                            *)
(***************************************************************************)

\* C20: whatever mouseover and mouseout events came between the start and
\* the end of a simulation, when the simulation ends the simulated job has
\* the owner it had when the simulation started.
C20_Original ==
  [][lastAction' = "EndSimulation" =>
       chantiers'[chantierEnAttenteAffectation].preparateur = ownerAtStart]_vars

(***************************************************************************)
(* The current week, for a page loaded at any instant of the calendar      *)
(***************************************************************************)

\* C21: whatever the instant of the calendar the page is loaded at, the
\* week the projection starts from (the week whose id is nowId) exists and
\* is the week a run at that instant finds as its current week.
C21_Original ==
  /\ currentIndex(nowId) # 0
  /\ currentIndex(nowId) = currentWeekIdx(clock)

\* C22: the key of the week a run finds as its current week is the key of
\* no other week of the calendar, and weekMap holds one entry per week.
C22_Original ==
  \A c \in {currentWeekIdx(clock)} :
    /\ Cardinality(DOMAIN weekMap) = NWeeks
    /\ \A i \in 1..NWeeks : i # c => weekKeys[i] # weekKeys[c]

\* C23: at every instant of the calendar a run finds a current week, the
\* week found starts on a Monday and its seven days hold the date of the
\* instant; on a Sunday it is the week that ends that day.
C23_AnchorResolution ==
  \A c \in {currentWeekIdx(clock)} :
    /\ c # 0
    /\ getUTCDay(weeks[c].start) = 1
    /\ weeks[c].start <= clock.day
    /\ clock.day <= weeks[c].start + 6
    /\ getUTCDay(clock.day) = 0 => weeks[c].end = clock.day

\* A run on a Sunday at 23:00 found the week that ends that day, and moved
\* minutes of a job.
C23_Witness ==
  /\ lastAction = "Resave"
  /\ getUTCDay(clock.day) = 0
  /\ clock.min = 1380
  /\ currentWeekIdx(clock) # 0
  /\ weeks[currentWeekIdx(clock)].end = clock.day
  /\ PlansOf(chantiers) # PlansOf(before)

(***************************************************************************)
(* What a run leaves on the job records                                    *)
(***************************************************************************)

\* C24: after a run no job record carries a field the run wrote other than
\* its allocation map: the working field ChargeRestante of line 66 is gone.
C24_Original ==
  Ran => \A id \in DOMAIN chantiers : chantiers[id].ChargeRestante = Absent

(***************************************************************************)
(* The projection, week by week                                            *)
(***************************************************************************)

\* C25: for every preparer, with the records of the projected weeks read in
\* calendar order from the current week (position 1), CA of a week is its
\* dispo plus the M of the week before (0 before the current week), and M is
\* CA minus C: the margin cascades without a reset.
C25_Original ==
  \A m \in {margesGlobales} : \A r \in DOMAIN m : \A p \in 1..Len(m[r]) :
    /\ m[r][p].CA = m[r][p].dispo + (IF p = 1 THEN 0 ELSE m[r][p - 1].M)
    /\ m[r][p].M = m[r][p].CA - m[r][p].C

\* C26: for every preparer and every projected week, Tdisp is the least M
\* of the week and of the 15 weeks after it, as many as the calendar has.
C26_Original ==
  \A m \in {margesGlobales} : \A r \in DOMAIN m : \A p \in 1..Len(m[r]) :
    /\ \A j \in p..Min(p + 15, Len(m[r])) : m[r][p].Tdisp <= m[r][j].M
    /\ \E j \in p..Min(p + 15, Len(m[r])) : m[r][p].Tdisp = m[r][j].M

\* The badge the rule gives a week with availability whose Tdisp is t, the
\* weeks with availability before it being the positions Q of recs: lastTdisp
\* is the Tdisp of the last of them.
BadgeRule(recs, Q, t) ==
  IF Q = {} THEN <<RoundHalf(t)>>
  ELSE \* lastTdisp
       LET last == recs[CHOOSE q \in Q : \A x \in Q : x <= q].Tdisp
       IN IF t = last THEN <<>>
          ELSE <<RoundHalf(IF last > 0 THEN t - last ELSE t)>>

\* C27: for every preparer, with the records read in calendar order from the
\* current week, the first week with dispo > 0 carries its Tdisp rounded to
\* the half hour; a later week with dispo > 0 carries no badge when its Tdisp
\* is lastTdisp, and otherwise the rounded Tdisp - lastTdisp when
\* lastTdisp > 0, the rounded Tdisp when lastTdisp <= 0.
C27_Original ==
  \A m \in {margesGlobales} : \A r \in DOMAIN m :
    \A P \in {{p \in 1..Len(m[r]) : m[r][p].dispo > 0}} : \A p \in P :
      m[r][p].badge = BadgeRule(m[r], {q \in P : q < p}, m[r][p].Tdisp)

\* C28: an active job of a preparer of the store whose deadline week lies
\* before the current week counts in the chargeEcheance of the current week,
\* and of no other projected week, exactly when its allocation map holds an
\* entry for the current week or a later one; without such an entry it
\* counts in no projected week.
C28_Original ==
  \A c \in {ci} : c # 0 =>
    \A id \in DOMAIN chantiers :
      ( /\ IsActive(chantiers[id])
        /\ chantiers[id].preparateur \in DOMAIN data
        /\ DeadlineWeeks(chantiers[id]) # {}
        /\ \A w \in DeadlineWeeks(chantiers[id]) : w < c )
      => \A e \in {EcheanceOf(chantiers[id], c)} : \A i \in c..NWeeks :
           CountsInWeek(e, i, c)
             <=> ( /\ i = c
                   /\ \E j \in c..NWeeks :
                        weekKeys[j] \in DOMAIN chantiers[id].planification )

(***************************************************************************)
(* One preparer at a time                                                  *)
(***************************************************************************)

\* The stores with another availability for preparer b (v = 1: 2400 minutes
\* under every probe key; v = 2: none) and other jobs for b (v = 1: the
\* other prepTime, the earliest deadline, no allocation; v = 2: closed).
OtherInputs(ch, dat, b, v) ==
  [jobs |-> [id \in DOMAIN ch |->
               IF ch[id].preparateur # b THEN ch[id]
               ELSE IF v = 1
               THEN [ch[id] EXCEPT !.prepTime = 6200 - @,
                                   !.endDate = <<10, 1, 2024>>,
                                   !.planification = <<>>]
               ELSE [ch[id] EXCEPT !.status = "Cloture"]],
   avail |-> [n \in DOMAIN dat |->
                IF n # b THEN dat[n]
                ELSE IF v = 1 THEN [k \in ProbeKeys |-> Obj(2400, 0)]
                ELSE <<>>]]

\* C29: a run on stores that differ from those of the state only in the
\* availability of one preparer b and in the jobs b owns leaves every job of
\* another owner with the allocation map the run on the stores of the state
\* leaves it.
C29_Independent ==
  \A here \in {repartitionAutomatique(chantiers, data, now)} :
    \A b \in DOMAIN data : \A v \in {1, 2} :
      \A o \in {OtherInputs(chantiers, data, b, v)} :
        \A there \in {repartitionAutomatique(o.jobs, o.avail, now)} :
          \A id \in DOMAIN chantiers :
            chantiers[id].preparateur # b
              => there[id].planification = here[id].planification

\* After a run, A and B each own an active job with minutes from the current
\* week on, and with the other inputs for B the job of B ends with another
\* allocation map.
C29_Witness ==
  /\ Planned
  /\ \E ja, jb \in DOMAIN chantiers :
       /\ chantiers[ja].preparateur = "A" /\ chantiers[jb].preparateur = "B"
       /\ IsActive(chantiers[ja]) /\ IsActive(chantiers[jb])
       /\ FutureEntries(chantiers[ja]) # {} /\ FutureEntries(chantiers[jb]) # {}
       /\ \E o \in {OtherInputs(chantiers, data, "B", 1)} :
            repartitionAutomatique(o.jobs, o.avail, now)[jb].planification
              # chantiers[jb].planification

(***************************************************************************)
(* The run as a fold with a consumed-so-far accumulator                    *)
(***************************************************************************)

RECURSIVE FoldWeeks(_, _, _, _, _, _, _)
\* The walk of one job from week i on: consumed[j] is what the jobs of the
\* preparer were given in week j so far in this run; the job takes
\* min(remaining, max(0, availability - consumed)) in each week.
FoldWeeks(ch, dat, name, id, i, remaining, consumed) ==
  IF remaining <= 0 THEN [jobs |-> ch, consumed |-> consumed]
  ELSE LET S == {j \in WeeksWithDispo(dat, name) :
                   j >= i /\ dispoParSemaine(dat, name, weekKeys[j]) - consumed[j] > 0}
       IN IF S = {} THEN [jobs |-> ch, consumed |-> consumed]
          ELSE LET j  == CHOOSE x \in S : \A y \in S : x <= y
                   k  == weekKeys[j]
                   tp == Min(remaining, dispoParSemaine(dat, name, k) - consumed[j])
               IN FoldWeeks([ch EXCEPT ![id].planification =
                               PlanPut(@, k, PlanAt(@, k) + tp)],
                            dat, name, id, j + 1, remaining - tp,
                            [consumed EXCEPT ![j] = @ + tp])

RECURSIVE FoldJobs(_, _, _, _, _, _, _)
\* The fold over the jobs of a preparer in deadline order, from job n on.
FoldJobs(ch, dat, name, list, n, first, consumed) ==
  IF n > Len(list) THEN ch
  ELSE LET id == list[n]
           remaining == ch[id].prepTime - SumPlan(ch[id].planification)
           done == FoldWeeks(ch, dat, name, id, first, remaining, consumed)
       IN FoldJobs(done.jobs, dat, name, list, n + 1, first, done.consumed)

\* One preparer: the accumulator starts at 0 for every week.
FoldPreparateur(ch, dat, name, first) ==
  LET list == chantierList(ch, name)
  IN IF list = <<>> THEN ch
     ELSE FoldJobs(ResetToPast(ch, list, first), dat, name, list, 1, first,
                   [i \in 1..NWeeks |-> 0])

RECURSIVE FoldAll(_, _, _, _)
FoldAll(ch, dat, n, first) ==
  IF n > Len(NameOrder) THEN ch
  ELSE IF NameOrder[n] \in DOMAIN dat
       THEN FoldAll(FoldPreparateur(ch, dat, NameOrder[n], first), dat, n + 1, first)
       ELSE FoldAll(ch, dat, n + 1, first)

\* C30: the allocation maps a run leaves are those of the fold over the
\* deadline-ordered jobs of each preparer that carries, for every week from
\* the current week on, what the run has given in the week so far, starting
\* at 0.
C30_Original ==
  Planned =>
    PlansOf(chantiers) = PlansOf(FoldAll(Deprogram(before, cur), data, 1, cur))

====
